---------------------------- MODULE Spec2Model ----------------------------
(***************************************************************************)
(* A model of the SimpleCalculator program: the interactive loop of        *)
(* main.cpp and the three stages of SimpleCalculator::Evaluate             *)
(* (Tokenize, ConvertToRPN, postfix evaluation) of SimpleCalculator.cpp,   *)
(* with the two process-wide tables Operators and OperatorPrecendence.     *)
(*                                                                         *)
(* A text is a sequence of one-character strings.  A double is modelled    *)
(* as an exact fraction [n, d] in lowest terms; a computation that leaves  *)
(* the modelled range (division by zero, a non-integer exponent, a         *)
(* magnitude above MaxMagnitude) yields NaV, and a call whose arithmetic   *)
(* does so is not drawn as an input of the model.                          *)
(***************************************************************************)
EXTENDS Integers, Sequences, FiniteSets, TLC

VARIABLES
    pc,                  \* where main stands: getline, print, printed, exit, crashed
    user_input,          \* main's user_input: the line handed to Evaluate
    error,               \* main's error: the code Evaluate returned
    result,              \* main's result
    wcout,               \* what this iteration of the loop wrote after the prompt
    exit_code,           \* the value main returned (-1 while it runs)
    Operators,           \* the process-wide map wchar_t -> Token
    OperatorPrecendence, \* the process-wide map TokenType -> int
    tokens,              \* Evaluate's tokens at its return
    rpn,                 \* Evaluate's rpn at its return
    eval_stack,          \* Evaluate's eval_stack at its return
    stages,              \* the error each stage of the last Evaluate returned
    seen,                \* an earlier call and what it returned (SpecHistory)
    drawn                \* the input drawn in the initial state (SpecExpr)

vars == <<pc, user_input, error, result, wcout, exit_code, Operators,
          OperatorPrecendence, tokens, rpn, eval_stack, stages, seen, drawn>>

(***************************************************************************)
(* Bounds of the model.                                                    *)
(***************************************************************************)
\* the longest text of the exhaustive pool ShortTexts
MaxLen == 2
\* the longest text of the pool HistTexts
MaxHistLen == 2
\* the most operators of a drawn expression with parentheses
MaxExprOps == 2
\* the most operators of a drawn parenthesis-free chain
MaxChainOps == 3
\* the most literals of a drawn chain of exponentiations
MaxExpChain == 4
\* the largest numerator or denominator of a modelled double
MaxMagnitude == 10000
MaxTokens == 4

(***************************************************************************)
(* Characters and their classes.                                           *)
(***************************************************************************)
DigitChars == {"0", "1", "2", "3", "4", "5", "6", "7", "8", "9"}

iswdigit(c) == c \in DigitChars

iswalpha(c) == c \in {"a", "x"}

iswspace(c) == c \in {" "}

DigitValue(c) ==
    CASE c = "0" -> 0 [] c = "1" -> 1 [] c = "2" -> 2 [] c = "3" -> 3
      [] c = "4" -> 4 [] c = "5" -> 5 [] c = "6" -> 6 [] c = "7" -> 7
      [] c = "8" -> 8 [] c = "9" -> 9

(***************************************************************************)
(* Doubles.                                                                *)
(***************************************************************************)
NaV == [n |-> 0, d |-> 0]

Abs(x) == IF x < 0 THEN -x ELSE x

RECURSIVE Gcd(_, _)
Gcd(a, b) == IF b = 0 THEN a ELSE Gcd(b, a % b)

Reduced(n, d, g) ==
    IF Abs(n) \div g > MaxMagnitude \/ d \div g > MaxMagnitude
    THEN NaV
    ELSE [n |-> n \div g, d |-> d \div g]

\* the fraction n/d (d > 0) in lowest terms, NaV when out of the modelled range
Frac(n, d) == Reduced(n, d, Gcd(Abs(n), d))

Dbl(k) == Frac(k, 1)

IsNaV(v) == v.d = 0

DAdd(a, b) ==
    IF IsNaV(a) \/ IsNaV(b) THEN NaV ELSE Frac(a.n * b.d + b.n * a.d, a.d * b.d)

DSub(a, b) ==
    IF IsNaV(a) \/ IsNaV(b) THEN NaV ELSE Frac(a.n * b.d - b.n * a.d, a.d * b.d)

DMul(a, b) ==
    IF IsNaV(a) \/ IsNaV(b) THEN NaV ELSE Frac(a.n * b.n, a.d * b.d)

DDiv(a, b) ==
    IF IsNaV(a) \/ IsNaV(b) \/ b.n = 0 THEN NaV
    ELSE IF b.n < 0 THEN Frac(-(a.n * b.d), a.d * (-b.n))
    ELSE Frac(a.n * b.d, a.d * b.n)

Square(a) == DMul(a, a)

\* a to the power of the natural number k
RECURSIVE PowNat(_, _)
PowNat(a, k) ==
    IF k = 0 THEN Dbl(1)
    ELSE IF k % 2 = 0 THEN Square(PowNat(a, k \div 2))
    ELSE DMul(a, Square(PowNat(a, k \div 2)))

\* std::pow for an integer exponent
DPow(a, b) ==
    IF IsNaV(a) \/ IsNaV(b) \/ b.d # 1 THEN NaV
    ELSE IF b.n >= 0 THEN PowNat(a, b.n)
    ELSE PowNat(DDiv(Dbl(1), a), -b.n)

(***************************************************************************)
(* std::wcstod on the characters of a substring: leading whitespace, an    *)
(* optional sign, digits with at most one decimal point; the longest such  *)
(* prefix is converted, and 0 is returned when it holds no digit.          *)
(***************************************************************************)
RECURSIVE SkipSpaces(_)
SkipSpaces(s) ==
    IF s # <<>> /\ iswspace(Head(s)) THEN SkipSpaces(Tail(s)) ELSE s

RECURSIVE DigitRun(_)
DigitRun(s) ==
    IF s # <<>> /\ iswdigit(Head(s)) THEN <<Head(s)>> \o DigitRun(Tail(s)) ELSE <<>>

RECURSIVE DecimalValue(_)
DecimalValue(ds) ==
    IF ds = <<>> THEN 0
    ELSE 10 * DecimalValue(SubSeq(ds, 1, Len(ds) - 1)) + DigitValue(ds[Len(ds)])

RECURSIVE TenTo(_)
TenTo(k) == IF k = 0 THEN 1 ELSE 10 * TenTo(k - 1)

\* the digits after a decimal point at the head of rest
FractionDigits(rest) ==
    IF rest # <<>> /\ Head(rest) = "." THEN DigitRun(Tail(rest)) ELSE <<>>

\* the value of the digits ip, a point and the digits fp; 0 without any digit
Mantissa(sign, ip, fp) ==
    IF ip = <<>> /\ fp = <<>> THEN Dbl(0)
    ELSE Frac(sign * (DecimalValue(ip) * TenTo(Len(fp)) + DecimalValue(fp)),
              TenTo(Len(fp)))

AfterIntegerPart(sign, u, ip) ==
    Mantissa(sign, ip, FractionDigits(SubSeq(u, Len(ip) + 1, Len(u))))

AfterSign(sign, u) == AfterIntegerPart(sign, u, DigitRun(u))

AfterSpaces(t) ==
    IF t # <<>> /\ Head(t) = "-" THEN AfterSign(-1, Tail(t))
    ELSE IF t # <<>> /\ Head(t) = "+" THEN AfterSign(1, Tail(t))
    ELSE AfterSign(1, t)

wcstod(s) == AfterSpaces(SkipSpaces(s))

(***************************************************************************)
(* Tokens, error codes and the two process-wide tables.                    *)
(***************************************************************************)
\* enum class TokenType; Invalid stands for a value that is no enumerator,
\* which only an uninitialized Token can hold
TokenTypes ==
    {"Number", "Add", "Sub", "Mult", "Div", "Exp", "LParanthesis", "RParenthesis"}

EvaluationError ==
    {"OK", "InvalidCharacters", "UnknownOperator", "MismatchedParantheses",
     "TooManyInputs", "NotEnoughInputs"}

\* Token(TokenType t, double val = 0)
Token(t, val) == [type |-> t, val |-> val]

NumberToken(v) == Token("Number", v)

OpToken(t) == Token(t, Dbl(0))

\* Token() { }: both fields are left uninitialized.  The map node that
\* Operators[curr] inserts holds such a token; its type is any TokenType or
\* no enumerator at all, its val any double.
UninitVals == {Dbl(0), Dbl(1)}

UninitTokens ==
    {Token("Number", v) : v \in UninitVals}
        \cup {OpToken(t) : t \in (TokenTypes \ {"Number"}) \cup {"Invalid"}}

InitOperators ==
    ("+" :> OpToken("Add")) @@ ("-" :> OpToken("Sub")) @@ ("*" :> OpToken("Mult"))
        @@ ("/" :> OpToken("Div")) @@ ("^" :> OpToken("Exp"))
        @@ ("(" :> OpToken("LParanthesis")) @@ (")" :> OpToken("RParenthesis"))

InitOperatorPrecendence ==
    ("Add" :> 0) @@ ("Sub" :> 0) @@ ("Mult" :> 1) @@ ("Div" :> 1) @@ ("Exp" :> 2)

(***************************************************************************)
(* Tokenize.  ops is Operators at the call; uninit[c] is the content of    *)
(* the node that Operators[c] inserts for a character c that is no key.    *)
(* The loop runs from index i (1-based) with the function's locals.        *)
(***************************************************************************)
\* line 147: Operators[curr] inserts a default-constructed Token for a
\* character that is no key of the map
OperatorsLookup(ops, curr, uninit) ==
    IF curr \in DOMAIN ops THEN ops ELSE ops @@ (curr :> uninit[curr])

\* variant: the check for an alphabetic character is made only outside a number
InvalidCharacterOutsideNumber(curr, parsing_number) ==
    iswalpha(curr) /\ ~parsing_number

\* lines 137-138: an alphabetic character ends the scan in either state
InvalidCharacter(curr, parsing_number) == iswalpha(curr)

RECURSIVE TokenizeLoop(_, _, _, _, _, _, _)
TokenizeLoop(text, i, start_index, parsing_number, toks, ops, uninit) ==
    IF i > Len(text)
    THEN [error |-> "OK",
          tokens |-> IF parsing_number
                     THEN Append(toks, NumberToken(wcstod(SubSeq(text, start_index, Len(text)))))
                     ELSE toks,
          Operators |-> ops]
    ELSE
      LET curr == text[i]
          token_is_space == iswspace(curr)
          token_is_op == curr \in DOMAIN ops
      IN
        IF InvalidCharacter(curr, parsing_number)
        THEN [error |-> "InvalidCharacters", tokens |-> toks, Operators |-> ops]
        ELSE IF ~parsing_number
        THEN
          LET plain == iswdigit(curr) \/ curr = "."
              ops1 == IF plain THEN ops ELSE OperatorsLookup(ops, curr, uninit)
              starts_number ==
                  plain \/ (ops1[curr].type = "Sub" /\ i + 1 <= Len(text)
                              /\ iswdigit(text[i + 1]))
          IN  IF starts_number
              THEN TokenizeLoop(text, i + 1, i, TRUE, toks, ops1, uninit)
              ELSE IF token_is_op
              THEN TokenizeLoop(text, i + 1, start_index, FALSE,
                                Append(toks, ops1[curr]), ops1, uninit)
              ELSE IF token_is_space
              THEN TokenizeLoop(text, i + 1, start_index, FALSE, toks, ops1, uninit)
              ELSE [error |-> "UnknownOperator", tokens |-> toks, Operators |-> ops1]
        ELSE
          LET number_consumed == token_is_space \/ token_is_op
              val == wcstod(SubSeq(text, start_index, i - 1))
              toks1 == Append(toks, NumberToken(val))
          IN  IF number_consumed
              THEN TokenizeLoop(text, i + 1, start_index, FALSE,
                                IF token_is_op THEN Append(toks1, ops[curr]) ELSE toks1,
                                ops, uninit)
              ELSE TokenizeLoop(text, i + 1, start_index, TRUE, toks, ops, uninit)

Tokenize(text, ops, uninit) == TokenizeLoop(text, 1, 1, FALSE, <<>>, ops, uninit)

(***************************************************************************)
(* ConvertToRPN.  A stack is a sequence whose last element is the top.     *)
(* popped_op is read through a reference after op_stack.pop(): the deque   *)
(* under std::stack neither releases nor overwrites the slot of a popped   *)
(* element and Token has a trivial destructor, so the read yields the      *)
(* popped token.                                                           *)
(***************************************************************************)
Top(stack) == stack[Len(stack)]

Pop(stack) == SubSeq(stack, 1, Len(stack) - 1)

\* OperatorPrecendence[type]: inserts 0 for a type that is no key
PrecedenceLookup(prec, type) ==
    IF type \in DOMAIN prec THEN prec ELSE prec @@ (type :> 0)

\* variant: the left parenthesis that ends the popping goes to the output
RECURSIVE PopToLeftParenEmitted(_, _)
PopToLeftParenEmitted(op_stack, out) ==
    IF op_stack = <<>>
    THEN [left_paren_found |-> FALSE, op_stack |-> op_stack, rpn |-> out]
    ELSE LET popped_op == Top(op_stack)
         IN  IF popped_op.type # "LParanthesis"
             THEN PopToLeftParenEmitted(Pop(op_stack), Append(out, popped_op))
             ELSE [left_paren_found |-> TRUE, op_stack |-> Pop(op_stack),
                   rpn |-> Append(out, popped_op)]

\* lines 214-227: pop into the output until a left parenthesis is popped
RECURSIVE PopToLeftParen(_, _)
PopToLeftParen(op_stack, out) ==
    IF op_stack = <<>>
    THEN [left_paren_found |-> FALSE, op_stack |-> op_stack, rpn |-> out]
    ELSE LET popped_op == Top(op_stack)
         IN  IF popped_op.type # "LParanthesis"
             THEN PopToLeftParen(Pop(op_stack), Append(out, popped_op))
             ELSE [left_paren_found |-> TRUE, op_stack |-> Pop(op_stack), rpn |-> out]

\* variant: every operator, Exp too, is taken as left-associative
PushOperatorAllLeft(t, op_stack, out, prec) ==
    IF op_stack # <<>> /\ Top(op_stack).type # "LParanthesis"
    THEN LET top_op == Top(op_stack)
             prec1 == PrecedenceLookup(PrecedenceLookup(prec, t.type), top_op.type)
             pops == prec1[t.type] <= prec1[top_op.type]
         IN  [op_stack |-> Append(IF pops THEN Pop(op_stack) ELSE op_stack, t),
              rpn |-> IF pops THEN Append(out, top_op) ELSE out,
              prec |-> prec1]
    ELSE [op_stack |-> Append(op_stack, t), rpn |-> out, prec |-> prec]

\* variant: the operator is pushed without a look at the top of the stack
PushOperatorNeverPops(t, op_stack, out, prec) ==
    [op_stack |-> Append(op_stack, t), rpn |-> out, prec |-> prec]

\* lines 234-252: one operator token t; the top of the stack is compared once
PushOperator(t, op_stack, out, prec) ==
    IF op_stack # <<>> /\ Top(op_stack).type # "LParanthesis"
    THEN LET is_left_assoc == t.type # "Exp"
             top_op == Top(op_stack)
             prec1 == PrecedenceLookup(PrecedenceLookup(prec, t.type), top_op.type)
             pops == \/ is_left_assoc /\ prec1[t.type] <= prec1[top_op.type]
                     \/ ~is_left_assoc /\ prec1[t.type] < prec1[top_op.type]
         IN  [op_stack |-> Append(IF pops THEN Pop(op_stack) ELSE op_stack, t),
              rpn |-> IF pops THEN Append(out, top_op) ELSE out,
              prec |-> prec1]
    ELSE [op_stack |-> Append(op_stack, t), rpn |-> out, prec |-> prec]

\* variant: a left parenthesis met while the stack is emptied is discarded
RECURSIVE DrainDiscardingParens(_, _)
DrainDiscardingParens(op_stack, out) ==
    IF op_stack = <<>>
    THEN [error |-> "OK", rpn |-> out]
    ELSE LET popped_op == Top(op_stack)
         IN  IF popped_op.type # "LParanthesis"
             THEN DrainDiscardingParens(Pop(op_stack), Append(out, popped_op))
             ELSE DrainDiscardingParens(Pop(op_stack), out)

\* lines 256-265: the stack is emptied into the output
RECURSIVE Drain(_, _)
Drain(op_stack, out) ==
    IF op_stack = <<>>
    THEN [error |-> "OK", rpn |-> out]
    ELSE LET popped_op == Top(op_stack)
         IN  IF popped_op.type # "LParanthesis"
             THEN Drain(Pop(op_stack), Append(out, popped_op))
             ELSE [error |-> "MismatchedParantheses", rpn |-> out]

RECURSIVE ConvertLoop(_, _, _, _, _)
ConvertLoop(toks, i, op_stack, out, prec) ==
    IF i > Len(toks)
    THEN LET d == Drain(op_stack, out)
         IN  [error |-> d.error, rpn |-> d.rpn, OperatorPrecendence |-> prec]
    ELSE
      LET t == toks[i]
      IN  CASE t.type = "Number" ->
                 ConvertLoop(toks, i + 1, op_stack, Append(out, t), prec)
            [] t.type = "LParanthesis" ->
                 ConvertLoop(toks, i + 1, Append(op_stack, t), out, prec)
            [] t.type = "RParenthesis" ->
                 LET p == PopToLeftParen(op_stack, out)
                 IN  IF ~p.left_paren_found
                     THEN [error |-> "MismatchedParantheses", rpn |-> p.rpn,
                           OperatorPrecendence |-> prec]
                     ELSE ConvertLoop(toks, i + 1, p.op_stack, p.rpn, prec)
            [] OTHER ->
                 LET p == PushOperator(t, op_stack, out, prec)
                 IN  ConvertLoop(toks, i + 1, p.op_stack, p.rpn, p.prec)

ConvertToRPN(toks, prec) == ConvertLoop(toks, 1, <<>>, <<>>, prec)

(***************************************************************************)
(* SimpleCalculator::Evaluate.                                             *)
(***************************************************************************)
\* variant: the value popped first is taken as the left operand
ApplyOperatorSwapped(type, arg1, arg2) ==
    CASE type = "Add" -> DAdd(arg1, arg2)
      [] type = "Sub" -> DSub(arg1, arg2)
      [] type = "Mult" -> DMul(arg1, arg2)
      [] type = "Div" -> DDiv(arg1, arg2)
      [] type = "Exp" -> DPow(arg1, arg2)
      [] OTHER -> Dbl(0)

\* lines 88-106: arg3 for an operator token; arg1 was popped first.  The
\* switch has no case for a type that is no operator: arg3 stays 0.
ApplyOperator(type, arg1, arg2) ==
    CASE type = "Add" -> DAdd(arg2, arg1)
      [] type = "Sub" -> DSub(arg2, arg1)
      [] type = "Mult" -> DMul(arg2, arg1)
      [] type = "Div" -> DDiv(arg2, arg1)
      [] type = "Exp" -> DPow(arg2, arg1)
      [] OTHER -> Dbl(0)

\* lines 70-109: the loop over rpn, from index i with eval_stack = stack
RECURSIVE PostfixLoop(_, _, _)
PostfixLoop(post, i, stack) ==
    IF i > Len(post)
    THEN [error |-> "OK", eval_stack |-> stack]
    ELSE LET t == post[i]
         IN  IF t.type = "Number"
             THEN PostfixLoop(post, i + 1, Append(stack, t.val))
             ELSE IF Len(stack) < 2
             THEN [error |-> "NotEnoughInputs", eval_stack |-> stack]
             ELSE LET arg1 == Top(stack)
                      arg2 == Top(Pop(stack))
                      arg3 == ApplyOperator(t.type, arg1, arg2)
                  IN  PostfixLoop(post, i + 1, Append(Pop(Pop(stack)), arg3))

NotRun == "NotRun"

\* variant: result is assigned before the size of the stack is tested
OutcomeResultWrittenEarly(err, tk, post, stack, prec, cverr, pferr) ==
    [error |-> err,
     writes_result |-> stack # <<>>,
     value |-> IF stack # <<>> THEN Top(stack) ELSE Dbl(0),
     reads_empty_top |-> err = "OK" /\ stack = <<>>,
     tokens |-> tk.tokens, rpn |-> post, eval_stack |-> stack,
     Operators |-> tk.Operators, OperatorPrecendence |-> prec,
     stages |-> [Tokenize |-> tk.error, ConvertToRPN |-> cverr, Postfix |-> pferr]]

\* The outcome of one call: the error returned, whether result was written
\* and with what, the locals at the return, the two tables after the call,
\* and the error of each stage (NotRun for a stage the call did not reach).
\* reads_empty_top: line 115 reads eval_stack.top() of an empty stack.
Outcome(err, tk, post, stack, prec, cverr, pferr) ==
    [error |-> err,
     writes_result |-> err = "OK" /\ stack # <<>>,
     value |-> IF err = "OK" /\ stack # <<>> THEN Top(stack) ELSE Dbl(0),
     reads_empty_top |-> err = "OK" /\ stack = <<>>,
     tokens |-> tk.tokens, rpn |-> post, eval_stack |-> stack,
     Operators |-> tk.Operators, OperatorPrecendence |-> prec,
     stages |-> [Tokenize |-> tk.error, ConvertToRPN |-> cverr, Postfix |-> pferr]]

\* lines 111-116
AfterPostfix(tk, cv, pf) ==
    IF pf.error # "OK"
    THEN Outcome(pf.error, tk, cv.rpn, pf.eval_stack, cv.OperatorPrecendence,
                 cv.error, pf.error)
    ELSE IF Len(pf.eval_stack) > 1
    THEN Outcome("TooManyInputs", tk, cv.rpn, pf.eval_stack, cv.OperatorPrecendence,
                 cv.error, "TooManyInputs")
    ELSE Outcome("OK", tk, cv.rpn, pf.eval_stack, cv.OperatorPrecendence,
                 cv.error, "OK")

\* lines 65-109
AfterConvert(tk, cv) ==
    IF cv.error # "OK"
    THEN Outcome(cv.error, tk, cv.rpn, <<>>, cv.OperatorPrecendence, cv.error, NotRun)
    ELSE AfterPostfix(tk, cv, PostfixLoop(cv.rpn, 1, <<>>))

\* variant: ConvertToRPN runs on the tokens of a failed Tokenize too, and its
\* error is the one returned
ConverterErrorWins(tk, cv, prec) ==
    IF cv.error # "OK"
    THEN Outcome(cv.error, tk, cv.rpn, <<>>, cv.OperatorPrecendence, cv.error, NotRun)
    ELSE Outcome(tk.error, tk, <<>>, <<>>, prec, NotRun, NotRun)

AfterTokenizeLaterStageWins(tk, prec) ==
    IF tk.error # "OK"
    THEN ConverterErrorWins(tk, ConvertToRPN(tk.tokens, prec), prec)
    ELSE AfterConvert(tk, ConvertToRPN(tk.tokens, prec))

\* lines 60-66
AfterTokenize(tk, prec) ==
    IF tk.error # "OK"
    THEN Outcome(tk.error, tk, <<>>, <<>>, prec, NotRun, NotRun)
    ELSE AfterConvert(tk, ConvertToRPN(tk.tokens, prec))

Evaluate(text, ops, prec, uninit) == AfterTokenize(Tokenize(text, ops, uninit), prec)

\* every double of the call lies in the modelled range
InRange(r) ==
    /\ \A i \in 1..Len(r.tokens) : ~IsNaV(r.tokens[i].val)
    /\ \A i \in 1..Len(r.eval_stack) : ~IsNaV(r.eval_stack[i])

GetFriendlyEvaluationError(e) ==
    CASE e = "OK" -> "OK"
      [] e = "InvalidCharacters" -> "Invalid characters were detected in the expression."
      [] e = "UnknownOperator" -> "An unknown operator was supplied."
      [] e = "MismatchedParantheses" -> "Mismatched parantheses were detected!"
      [] e = "TooManyInputs" ->
           "Too many inputs for a given operation were supplied, e.g. 1 3 + 4"
      [] e = "NotEnoughInputs" ->
           "Not enough inputs for the given expression, e.g.  1 - 2 +"
      [] OTHER -> "Invalid EvaluationError supplied!"

(***************************************************************************)
(* The input lines of the model.                                           *)
(***************************************************************************)
Alphabet == {"1", "2", "+", "-", "*", "^", "(", ")", " ", "a", "#", "."}

ShortTexts == UNION {[1..n -> Alphabet] : n \in 1..MaxLen}

NamedTexts ==
    { <<"3", " ", "-", " ", "-", "2">>,
      <<"1", " ", "-", " ", "2", " ", "+">>,
      <<"2", "^", "3", "^", "2">>,
      <<"(", "1", "+", "2">>,
      <<"(", "1", "+", "2", ")", "*", "3">>,
      <<"1", "0", "/", "2", "-", "3">>,
      <<"1", " ", "+", " ", "2", " ", "+", " ", "3">>,
      <<"1", "-", "2", "*", "3", "-", "1">>,
      <<"8", "/", "2", "^", "2", "/", "2">> }

Texts == ShortTexts \cup NamedTexts

(***************************************************************************)
(* main.                                                                   *)
(***************************************************************************)
NoStages == [Tokenize |-> NotRun, ConvertToRPN |-> NotRun, Postfix |-> NotRun]

NoCall == [text |-> <<>>, error |-> "none", result |-> Dbl(0)]

NoDrawn == [txt |-> <<>>, val |-> Dbl(0)]

\* the state at the first getline, with d drawn
Start(d) ==
    /\ pc = "getline"
    /\ user_input = <<>>
    /\ error = "none"
    /\ result = Dbl(0)
    /\ wcout = <<>>
    /\ exit_code = -1
    /\ Operators = InitOperators
    /\ OperatorPrecendence = InitOperatorPrecendence
    /\ tokens = <<>>
    /\ rpn = <<>>
    /\ eval_stack = <<>>
    /\ stages = NoStages
    /\ seen = NoCall
    /\ drawn = d

Init == Start(NoDrawn)

\* the characters of line for which Operators[curr] can insert a node
Insertable(line, ops) ==
    {c \in {line[i] : i \in 1..Len(line)} :
        c \notin DOMAIN ops /\ ~iswdigit(c) /\ ~iswalpha(c) /\ c # "."}

\* lines 22-26 of main with the outcome r of the call.  Reading the top of
\* an empty stack at line 115 is undefined: the process aborts, or the call
\* returns OK with an arbitrary double in result.
Returned(line, r) ==
    /\ InRange(r)
    /\ user_input' = line
    /\ Operators' = r.Operators
    /\ OperatorPrecendence' = r.OperatorPrecendence
    /\ tokens' = r.tokens
    /\ rpn' = r.rpn
    /\ eval_stack' = r.eval_stack
    /\ stages' = r.stages
    /\ IF r.reads_empty_top
       THEN \/ pc' = "crashed" /\ error' = error /\ result' = result
            \/ \E v \in UninitVals : pc' = "print" /\ error' = "OK" /\ result' = v
       ELSE /\ pc' = "print"
            /\ error' = r.error
            /\ result' = IF r.writes_result THEN r.value ELSE result

\* lines 14-22: getline delivers a non-empty line and Evaluate runs on it
Call(line) ==
    /\ pc = "getline"
    /\ line # <<>>
    /\ \E uninit \in [Insertable(line, Operators) -> UninitTokens] :
         Returned(line, Evaluate(line, Operators, OperatorPrecendence, uninit))
    /\ UNCHANGED <<wcout, exit_code, drawn>>

EvaluateLine == \E line \in Texts : Call(line) /\ UNCHANGED seen

\* lines 14-17: end of input
Eof ==
    /\ pc = "getline"
    /\ pc' = "exit"
    /\ exit_code' = 0
    /\ UNCHANGED <<user_input, error, result, wcout, Operators, OperatorPrecendence,
                   tokens, rpn, eval_stack, stages, seen, drawn>>

\* lines 14-20: an empty line; the loop continues at its top
EmptyLine ==
    /\ pc = "getline"
    /\ user_input' = <<>>
    /\ pc' = "getline"
    /\ UNCHANGED <<error, result, wcout, exit_code, Operators, OperatorPrecendence,
                   tokens, rpn, eval_stack, stages, seen, drawn>>

\* lines 23-24
PrintResult ==
    /\ pc = "print"
    /\ error = "OK"
    /\ wcout' = Append(wcout, [text |-> "", value |-> result])
    /\ pc' = "printed"
    /\ UNCHANGED <<user_input, error, result, exit_code, Operators,
                   OperatorPrecendence, tokens, rpn, eval_stack, stages, seen, drawn>>

\* lines 25-26
PrintError ==
    /\ pc = "print"
    /\ error # "OK"
    /\ wcout' = Append(wcout, [text |-> GetFriendlyEvaluationError(error),
                               value |-> Dbl(0)])
    /\ pc' = "printed"
    /\ UNCHANGED <<user_input, error, result, exit_code, Operators,
                   OperatorPrecendence, tokens, rpn, eval_stack, stages, seen, drawn>>

\* lines 27, 10-13: the next iteration; its locals are fresh, Evaluate's are gone
NextIteration ==
    /\ pc = "printed"
    /\ pc' = "getline"
    /\ user_input' = <<>>
    /\ error' = "none"
    /\ result' = Dbl(0)
    /\ wcout' = <<>>
    /\ tokens' = <<>>
    /\ rpn' = <<>>
    /\ eval_stack' = <<>>
    /\ stages' = NoStages
    /\ UNCHANGED <<exit_code, Operators, OperatorPrecendence, seen, drawn>>

Next == EvaluateLine \/ Eof \/ EmptyLine \/ PrintResult \/ PrintError \/ NextIteration

Spec == Init /\ [][Next]_vars

(***************************************************************************)
(* The loop with one earlier call remembered: which call is remembered is  *)
(* left open, so that a later call is compared with any earlier one.       *)
(***************************************************************************)
HistAlphabet == {"1", " ", "#"}

HistTexts == UNION {[1..n -> HistAlphabet] : n \in 1..MaxHistLen}

EvaluateRemembering ==
    \E line \in HistTexts :
        /\ Call(line)
        /\ \/ seen' = seen
           \/ /\ seen = NoCall
              /\ pc' = "print"
              /\ seen' = [text |-> line, error |-> error', result |-> result']

NextHistory ==
    EvaluateRemembering \/ Eof \/ EmptyLine \/ PrintResult \/ PrintError \/ NextIteration

SpecHistory == Init /\ [][NextHistory]_vars

(***************************************************************************)
(* Valid infix expressions and their values under the standard grouping:   *)
(* + and - bind weakest and group to the left, * and / bind tighter and    *)
(* group to the left, ^ binds tightest and groups to the right.  These are *)
(* the reference the calculator is compared with, not a model of its code. *)
(***************************************************************************)
BinaryOps == {"Add", "Sub", "Mult", "Div", "Exp"}

ExprLiterals == {"2", "3"}

ExpLiterals == {"1", "2", "3"}

OpChar(op) ==
    CASE op = "Add" -> "+" [] op = "Sub" -> "-" [] op = "Mult" -> "*"
      [] op = "Div" -> "/" [] op = "Exp" -> "^"

StandardPrecedence(op) ==
    CASE op \in {"Add", "Sub"} -> 0 [] op \in {"Mult", "Div"} -> 1 [] op = "Exp" -> 2

GroupsToRight(op) == op = "Exp"

StandardApply(op, lhs, rhs) ==
    CASE op = "Add" -> DAdd(lhs, rhs) [] op = "Sub" -> DSub(lhs, rhs)
      [] op = "Mult" -> DMul(lhs, rhs) [] op = "Div" -> DDiv(lhs, rhs)
      [] op = "Exp" -> DPow(lhs, rhs)

\* an expression: its text without whitespace, its value, its outermost operator
Leaf(c) == [txt |-> <<c>>, val |-> Dbl(DigitValue(c)), top |-> "Number"]

Parenthesized(e) == <<"(">> \o e.txt \o <<")">>

LeftOperandText(op, l) ==
    IF l.top # "Number"
         /\ (StandardPrecedence(l.top) < StandardPrecedence(op)
               \/ (StandardPrecedence(l.top) = StandardPrecedence(op) /\ GroupsToRight(op)))
    THEN Parenthesized(l) ELSE l.txt

RightOperandText(op, r) ==
    IF r.top # "Number"
         /\ (StandardPrecedence(r.top) < StandardPrecedence(op)
               \/ (StandardPrecedence(r.top) = StandardPrecedence(op) /\ ~GroupsToRight(op)))
    THEN Parenthesized(r) ELSE r.txt

Binary(op, l, r) ==
    [txt |-> LeftOperandText(op, l) \o <<OpChar(op)>> \o RightOperandText(op, r),
     val |-> StandardApply(op, l.val, r.val),
     top |-> op]

\* the expressions with exactly k operators, parenthesized where the
\* standard grouping needs it
ExprsWith[k \in 0..MaxExprOps] ==
    IF k = 0 THEN {Leaf(c) : c \in ExprLiterals}
    ELSE UNION {{Binary(op, l, r) : op \in BinaryOps, l \in ExprsWith[i],
                                    r \in ExprsWith[k - 1 - i]} : i \in 0..(k - 1)}

\* one space on each side of every operator character of txt
RECURSIVE Spaced(_)
Spaced(txt) ==
    IF txt = <<>> THEN <<>>
    ELSE IF Head(txt) \in {"+", "-", "*", "/", "^"}
    THEN <<" ", Head(txt), " ">> \o Spaced(Tail(txt))
    ELSE <<Head(txt)>> \o Spaced(Tail(txt))

\* a parenthesis-free chain lits[1] ops[1] lits[2] ... as a text
ChainText(lits, ops) ==
    [i \in 1..(2 * Len(ops) + 1) |->
        IF i % 2 = 1 THEN lits[(i + 1) \div 2] ELSE OpChar(ops[i \div 2])]

\* the operator of a chain that the standard grouping applies first: the
\* last ^, else the first * or /, else the first operator
FirstApplied(ops) ==
    LET exps == {i \in 1..Len(ops) : ops[i] = "Exp"}
        muls == {i \in 1..Len(ops) : ops[i] \in {"Mult", "Div"}}
    IN  IF exps # {} THEN CHOOSE i \in exps : \A j \in exps : j <= i
        ELSE IF muls # {} THEN CHOOSE i \in muls : \A j \in muls : i <= j
        ELSE 1

RECURSIVE ChainValue(_, _)
ChainValue(vals, ops) ==
    IF ops = <<>> THEN vals[1]
    ELSE LET j == FirstApplied(ops)
         IN  ChainValue(
               [i \in 1..(Len(vals) - 1) |->
                   IF i < j THEN vals[i]
                   ELSE IF i = j THEN StandardApply(ops[j], vals[j], vals[j + 1])
                   ELSE vals[i + 1]],
               [i \in 1..(Len(ops) - 1) |-> IF i < j THEN ops[i] ELSE ops[i + 1]])

Chain(lits, ops) ==
    [txt |-> ChainText(lits, ops),
     val |-> ChainValue([i \in 1..Len(lits) |-> Dbl(DigitValue(lits[i]))], ops)]

Chains ==
    UNION {{Chain(lits, ops) : lits \in [1..(k + 1) -> ExprLiterals],
                               ops \in [1..k -> BinaryOps]} : k \in 0..MaxChainOps}

ExpChains ==
    UNION {{Chain(lits, [i \in 1..(n - 1) |-> "Exp"]) : lits \in [1..n -> ExpLiterals]}
             : n \in 2..MaxExpChain}

ParenExprs == UNION {ExprsWith[k] : k \in 0..MaxExprOps}

\* an expression with a literal of two digits
NamedExprs == {[txt |-> <<"1", "0", "/", "2", "-", "3">>, val |-> Dbl(2)]}

\* the drawn inputs: each text with its value, where the value is modelled
ExprTable ==
    {d \in {[txt |-> e.txt, val |-> e.val] : e \in ParenExprs}
             \cup {[txt |-> Spaced(e.txt), val |-> e.val] : e \in ParenExprs}
             \cup Chains \cup ExpChains \cup NamedExprs : ~IsNaV(d.val)}

InitExpr == \E d \in ExprTable : Start(d)

\* getline delivers the drawn line and Evaluate runs on it
EvaluateDrawn == Call(drawn.txt) /\ UNCHANGED seen

NextExpr == EvaluateDrawn \/ PrintResult \/ PrintError

SpecExpr == InitExpr /\ [][NextExpr]_vars

(***************************************************************************)
(* ConvertToRPN on drawn token sequences, among them sequences that only   *)
(* an uninitialized Operators entry can put into tokens, and Evaluate on   *)
(* drawn texts with parentheses.                                           *)
(***************************************************************************)
TokenPool ==
    {NumberToken(Dbl(1)), NumberToken(Dbl(2)),
     OpToken("Add"), OpToken("Mult"), OpToken("Exp"),
     OpToken("LParanthesis"), OpToken("RParenthesis"), OpToken("Invalid")}

TokenSeqs == UNION {[1..n -> TokenPool] : n \in 0..MaxTokens}

ParenTexts ==
    { <<"(", "1", "+", "2">>,
      <<"(", "1", "+", "2", ")">>,
      <<"1", "+", "2", ")">>,
      <<")", "1", "+", "2", "(">>,
      <<"(", "(", "1", ")", "+", "2", ")">>,
      <<"(", "(", "1", ")", "+", "2">> }

InitRPN ==
    \/ \E toks \in TokenSeqs :
         /\ pc = "convert"
         /\ tokens = toks
         /\ user_input = <<>> /\ error = "none" /\ result = Dbl(0)
         /\ wcout = <<>> /\ exit_code = -1
         /\ Operators = InitOperators
         /\ OperatorPrecendence = InitOperatorPrecendence
         /\ rpn = <<>> /\ eval_stack = <<>>
         /\ stages = [Tokenize |-> "OK", ConvertToRPN |-> NotRun, Postfix |-> NotRun]
         /\ seen = NoCall /\ drawn = NoDrawn
    \/ \E t \in ParenTexts : Start([txt |-> t, val |-> Dbl(0)])

\* line 65: ConvertToRPN(tokens, rpn), and its return value
ConvertDrawn ==
    /\ pc = "convert"
    /\ LET cv == ConvertToRPN(tokens, OperatorPrecendence)
       IN  /\ rpn' = cv.rpn
           /\ OperatorPrecendence' = cv.OperatorPrecendence
           /\ stages' = [stages EXCEPT !.ConvertToRPN = cv.error]
           /\ error' = cv.error
    /\ pc' = "converted"
    /\ UNCHANGED <<user_input, result, wcout, exit_code, Operators, tokens,
                   eval_stack, seen, drawn>>

NextRPN == ConvertDrawn \/ EvaluateDrawn

SpecRPN == InitRPN /\ [][NextRPN]_vars

(***************************************************************************)
(* Claims.                                                                 *)
(***************************************************************************)
CallReturned == pc \in {"print", "printed"}

\* C1: for every valid infix expression Evaluate returns OK and result is
\* the value of the expression under the standard grouping.
C1_ValidExpressionValue ==
    pc # "getline" => (pc # "crashed" /\ error = "OK" /\ result = drawn.val)

\* C2: two calls of Evaluate with the same text return the same error code
\* and, when OK, the same result, whatever was evaluated before or between.
C2_HistoryIndependent ==
    (pc = "print" /\ seen # NoCall /\ seen.text = user_input)
        => (error = seen.error /\ (error = "OK" => result = seen.result))

HasAlpha(text) == \E i \in 1..Len(text) : iswalpha(text[i])

FirstAlpha(text) ==
    CHOOSE i \in 1..Len(text) :
        iswalpha(text[i]) /\ \A j \in 1..(i - 1) : ~iswalpha(text[j])

\* a digit, a decimal point, whitespace or one of + - * / ^ ( )
Recognized(c) ==
    iswdigit(c) \/ c = "." \/ iswspace(c) \/ c \in {"+", "-", "*", "/", "^", "(", ")"}

\* C3 (as claimed): every text that contains an alphabetic character makes
\* Tokenize, and so Evaluate, return InvalidCharacters, whatever precedes it.
C3_AlphaAlwaysInvalid ==
    (CallReturned /\ HasAlpha(user_input))
        => (stages.Tokenize = "InvalidCharacters" /\ error = "InvalidCharacters")

\* C3 (amended): a text that contains an alphabetic character never passes
\* Tokenize: it returns InvalidCharacters or UnknownOperator, and it returns
\* InvalidCharacters whenever every character before the first alphabetic
\* one is a digit, a decimal point, whitespace or an operator character.
C3_AlphaInvalidUnlessUnknownBefore ==
    (CallReturned /\ HasAlpha(user_input))
        => /\ stages.Tokenize \in {"InvalidCharacters", "UnknownOperator"}
           /\ error = stages.Tokenize
           /\ (\A j \in 1..(FirstAlpha(user_input) - 1) : Recognized(user_input[j]))
                 => error = "InvalidCharacters"

\* an alphabetic character that is not the first character was rejected
C3_Witness ==
    /\ pc = "print"
    /\ HasAlpha(user_input)
    /\ FirstAlpha(user_input) > 1
    /\ error = "InvalidCharacters"

\* C4: when Evaluate returns OK the evaluation stack holds exactly one value
\* and result is that value; a final stack of more than one value returns
\* TooManyInputs; the top of an empty stack is never read, so the call
\* always comes back to main.
C4_ResultReadFromSingleStack ==
    /\ pc # "crashed"
    /\ (stages.Postfix = "OK")
          => (Len(eval_stack) = 1 /\ error = "OK" /\ result = eval_stack[1])
    /\ (stages.Postfix # NotRun /\ Len(eval_stack) > 1) => error = "TooManyInputs"

\* the number of left parentheses open after toks[1..i], or -1 once a right
\* parenthesis has come with none open
RECURSIVE OpenParens(_, _)
OpenParens(toks, i) ==
    IF i = 0
    THEN 0
    ELSE LET before == OpenParens(toks, i - 1)
         IN  IF before < 0 THEN -1
             ELSE IF toks[i].type = "LParanthesis" THEN before + 1
             ELSE IF toks[i].type = "RParenthesis" THEN before - 1
             ELSE before

Balanced(toks) == OpenParens(toks, Len(toks)) = 0

\* C5: ConvertToRPN returns MismatchedParantheses exactly for the token
\* sequences with unbalanced parentheses and OK for all the others, and
\* Evaluate("(1+2") returns MismatchedParantheses.
C5_MismatchIffUnbalanced ==
    /\ stages.ConvertToRPN # NotRun
          => stages.ConvertToRPN =
                 (IF Balanced(tokens) THEN "OK" ELSE "MismatchedParantheses")
    /\ (pc = "print" /\ user_input = <<"(", "1", "+", "2">>)
          => error = "MismatchedParantheses"

\* a left parenthesis was still on the operator stack at the end of the input
C5_Witness ==
    /\ pc = "converted"
    /\ stages.ConvertToRPN = "MismatchedParantheses"
    /\ OpenParens(tokens, Len(tokens)) > 0
    /\ \E i \in 1..Len(tokens) : tokens[i].type = "Add"

\* TRUE iff the loop over post[i..] reaches a token that is no Number while
\* fewer than two values are stacked, height values being stacked at i
RECURSIVE ReachesOperatorShort(_, _, _)
ReachesOperatorShort(post, i, height) ==
    IF i > Len(post) THEN FALSE
    ELSE IF post[i].type = "Number" THEN ReachesOperatorShort(post, i + 1, height + 1)
    ELSE IF height < 2 THEN TRUE
    ELSE ReachesOperatorShort(post, i + 1, height - 1)

\* C6: the postfix loop returns NotEnoughInputs exactly when it reaches an
\* operator token with fewer than two values stacked; a bare operator ("+")
\* and a trailing operator ("1 - 2 +") return NotEnoughInputs.
C6_NotEnoughInputsOnShortStack ==
    /\ (stages.Postfix # NotRun)
          => ((stages.Postfix = "NotEnoughInputs") <=> ReachesOperatorShort(rpn, 1, 0))
    /\ (pc = "print" /\ user_input \in { <<"+">>, <<"1", " ", "-", " ", "2", " ", "+">> })
          => error = "NotEnoughInputs"

\* C7: Evaluate stops at the first failing stage and returns its error: no
\* later stage runs, a text with an alphabetic character returns a tokenizer
\* error whatever its parentheses are, and unbalanced tokens return
\* MismatchedParantheses whatever operands are missing or left over.
C7_FirstFailingStageWins ==
    CallReturned =>
        /\ (stages.Tokenize # "OK")
              => /\ error = stages.Tokenize
                 /\ stages.ConvertToRPN = NotRun /\ stages.Postfix = NotRun
                 /\ rpn = <<>> /\ eval_stack = <<>>
        /\ (stages.Tokenize = "OK" /\ stages.ConvertToRPN # "OK")
              => /\ error = stages.ConvertToRPN
                 /\ stages.Postfix = NotRun /\ eval_stack = <<>>
        /\ (stages.Tokenize = "OK" /\ stages.ConvertToRPN = "OK")
              => error = stages.Postfix
        /\ HasAlpha(user_input) => error \in {"InvalidCharacters", "UnknownOperator"}
        /\ (stages.Tokenize = "OK" /\ ~Balanced(tokens))
              => error = "MismatchedParantheses"
        /\ (error \in {"NotEnoughInputs", "TooManyInputs"})
              => (stages.Tokenize = "OK" /\ Balanced(tokens))

\* a text with an unmatched left parenthesis before an alphabetic character
\* was rejected by Tokenize
C7_Witness ==
    /\ pc = "print"
    /\ error = "InvalidCharacters"
    /\ tokens # <<>>
    /\ ~Balanced(tokens)
    /\ stages.ConvertToRPN = NotRun

\* digits separated by ^, two digits at least
IsExpChain(text) ==
    /\ Len(text) >= 3
    /\ Len(text) % 2 = 1
    /\ \A i \in 1..Len(text) : IF i % 2 = 1 THEN iswdigit(text[i]) ELSE text[i] = "^"

\* a1 ^ (a2 ^ (... ^ an)) for the chain text from its i-th character
RECURSIVE GroupedToRight(_, _)
GroupedToRight(text, i) ==
    IF i = Len(text)
    THEN Dbl(DigitValue(text[i]))
    ELSE DPow(Dbl(DigitValue(text[i])), GroupedToRight(text, i + 2))

\* a1 a2 ... an followed by n-1 Exp tokens
ChainPostfix(text) ==
    LET n == (Len(text) + 1) \div 2
    IN  [i \in 1..(2 * n - 1) |->
            IF i <= n THEN NumberToken(Dbl(DigitValue(text[2 * i - 1])))
            ELSE OpToken("Exp")]

\* C8: for a parenthesis-free chain a1 ^ a2 ^ ... ^ an, ConvertToRPN emits
\* a1 ... an followed by n-1 Exp tokens and Evaluate returns OK with
\* a1^(a2^(...^an)); Evaluate("2^3^2") is OK with 512.
C8_ExpGroupsToRight ==
    /\ (CallReturned /\ IsExpChain(user_input))
          => /\ error = "OK"
             /\ rpn = ChainPostfix(user_input)
             /\ result = GroupedToRight(user_input, 1)
    /\ (CallReturned /\ user_input = <<"2", "^", "3", "^", "2">>)
          => (error = "OK" /\ result = Dbl(512))

\* a chain of four operands was evaluated
C8_Witness ==
    /\ pc = "print"
    /\ IsExpChain(user_input)
    /\ Len(user_input) = 7
    /\ error = "OK"
    /\ result # Dbl(1)

\* C9: a '-' followed by a digit in the operator-scanning state begins a
\* negative Number; "3 - -2" tokenizes to [Number 3, Sub, Number -2] and
\* Evaluate returns OK with 5.
C9_NegativeLiteral ==
    /\ (CallReturned /\ Len(user_input) = 2 /\ user_input[1] = "-" /\ iswdigit(user_input[2]))
          => (error = "OK" /\ tokens = <<NumberToken(Dbl(0 - DigitValue(user_input[2])))>>)
    /\ (CallReturned /\ user_input = <<"3", " ", "-", " ", "-", "2">>)
          => /\ tokens = <<NumberToken(Dbl(3)), OpToken("Sub"), NumberToken(Dbl(-2))>>
             /\ error = "OK"
             /\ result = Dbl(5)

\* C10: the loop leaves only on end of input, with exit code 0; each
\* non-empty line gets exactly one line of output, the result when the
\* call returned OK and the friendly message otherwise.
C10_LoopLeavesOnlyOnEof ==
    /\ pc \in {"getline", "print", "printed", "exit"}
    /\ (pc = "exit") => exit_code = 0
    /\ (pc \in {"getline", "print"}) => wcout = <<>>
    /\ (pc = "printed")
          => /\ Len(wcout) = 1
             /\ wcout[1] = IF error = "OK"
                           THEN [text |-> "", value |-> result]
                           ELSE [text |-> GetFriendlyEvaluationError(error),
                                 value |-> Dbl(0)]

\* the message of each error kind in the table of the specification
TableMessage(e) ==
    CASE e = "InvalidCharacters" -> "Invalid characters were detected in the expression."
      [] e = "UnknownOperator" -> "An unknown operator was supplied."
      [] e = "MismatchedParantheses" -> "Mismatched parentheses were detected!"
      [] e = "TooManyInputs" ->
           "Too many inputs for a given operation were supplied, e.g. 1 3 + 4"
      [] e = "NotEnoughInputs" ->
           "Not enough inputs for the given expression, e.g. 1 - 2 +"

\* C11: GetFriendlyEvaluationError gives each of the five error kinds the
\* message of the table, character for character; so does the line main
\* prints for a failed call.
C11_MessagesAsInTable ==
    (pc = "printed" /\ error # "OK")
        => /\ GetFriendlyEvaluationError(error) = TableMessage(error)
           /\ wcout[1].text = TableMessage(error)

(***************************************************************************)
(* The textbook shunting-yard algorithm, which pops in a loop while the    *)
(* precedence condition holds.  A reference, not a model of the code.      *)
(***************************************************************************)
StandardPops(t, top_op) ==
    \/ ~GroupsToRight(t.type)
         /\ StandardPrecedence(t.type) <= StandardPrecedence(top_op.type)
    \/ GroupsToRight(t.type)
         /\ StandardPrecedence(t.type) < StandardPrecedence(top_op.type)

\* the operators popped for the incoming operator t, counted in pops
RECURSIVE StandardPopWhile(_, _, _, _)
StandardPopWhile(t, op_stack, out, pops) ==
    IF op_stack # <<>> /\ Top(op_stack).type # "LParanthesis"
         /\ StandardPops(t, Top(op_stack))
    THEN StandardPopWhile(t, Pop(op_stack), Append(out, Top(op_stack)), pops + 1)
    ELSE [op_stack |-> Append(op_stack, t), rpn |-> out, pops |-> pops]

RECURSIVE StandardPopToLeftParen(_, _)
StandardPopToLeftParen(op_stack, out) ==
    IF op_stack = <<>> THEN [found |-> FALSE, op_stack |-> op_stack, rpn |-> out]
    ELSE IF Top(op_stack).type = "LParanthesis"
    THEN [found |-> TRUE, op_stack |-> Pop(op_stack), rpn |-> out]
    ELSE StandardPopToLeftParen(Pop(op_stack), Append(out, Top(op_stack)))

RECURSIVE StandardDrain(_, _)
StandardDrain(op_stack, out) ==
    IF op_stack = <<>> THEN out
    ELSE StandardDrain(Pop(op_stack), Append(out, Top(op_stack)))

\* the postfix sequence of toks[i..] and the largest number of operators one
\* incoming operator popped; toks is a well-formed infix expression
RECURSIVE StandardLoop(_, _, _, _, _)
StandardLoop(toks, i, op_stack, out, most) ==
    IF i > Len(toks)
    THEN [rpn |-> StandardDrain(op_stack, out), most |-> most]
    ELSE IF toks[i].type = "Number"
    THEN StandardLoop(toks, i + 1, op_stack, Append(out, toks[i]), most)
    ELSE IF toks[i].type = "LParanthesis"
    THEN StandardLoop(toks, i + 1, Append(op_stack, toks[i]), out, most)
    ELSE IF toks[i].type = "RParenthesis"
    THEN StandardLoop(toks, i + 1, StandardPopToLeftParen(op_stack, out).op_stack,
                      StandardPopToLeftParen(op_stack, out).rpn, most)
    ELSE StandardLoop(toks, i + 1,
                      StandardPopWhile(toks[i], op_stack, out, 0).op_stack,
                      StandardPopWhile(toks[i], op_stack, out, 0).rpn,
                      IF StandardPopWhile(toks[i], op_stack, out, 0).pops > most
                      THEN StandardPopWhile(toks[i], op_stack, out, 0).pops
                      ELSE most)

StandardRPN(toks) == StandardLoop(toks, 1, <<>>, <<>>, 0).rpn

\* the largest number of operators the textbook algorithm pops for one
\* incoming operator of toks
MostPops(toks) == StandardLoop(toks, 1, <<>>, <<>>, 0).most

\* toks[i..] continues a well-formed infix expression: operands and binary
\* operators alternate, parentheses enclose expressions
RECURSIVE InfixFrom(_, _, _, _)
InfixFrom(toks, i, operand_next, open) ==
    IF i > Len(toks) THEN ~operand_next /\ open = 0
    ELSE IF operand_next
    THEN CASE toks[i].type = "Number" -> InfixFrom(toks, i + 1, FALSE, open)
           [] toks[i].type = "LParanthesis" -> InfixFrom(toks, i + 1, TRUE, open + 1)
           [] OTHER -> FALSE
    ELSE CASE toks[i].type \in BinaryOps -> InfixFrom(toks, i + 1, TRUE, open)
           [] toks[i].type = "RParenthesis" /\ open > 0 ->
                InfixFrom(toks, i + 1, FALSE, open - 1)
           [] OTHER -> FALSE

WellFormedInfix(toks) == InfixFrom(toks, 1, TRUE, 0)

\* C12: for every token sequence that is a well-formed infix expression,
\* ConvertToRPN returns OK and its postfix sequence is, token for token,
\* the output of the textbook shunting-yard algorithm.
C12_SameAsTextbook ==
    (CallReturned /\ stages.Tokenize = "OK" /\ WellFormedInfix(tokens))
        => (stages.ConvertToRPN = "OK" /\ rpn = StandardRPN(tokens))

\* C13: Operators and OperatorPrecendence are never mutated: in every
\* reachable state Operators holds its seven initial entries and
\* OperatorPrecendence its five, with their initial values.
C13_TablesNeverMutated ==
    /\ Operators = InitOperators
    /\ OperatorPrecendence = InitOperatorPrecendence

IsOperatorChar(c) == c \in {"+", "-", "*", "/", "^", "(", ")"}

\* the tokens of the operator characters of text, in the order of the text
OperatorTokensOf(text) ==
    LET ops == SelectSeq(text, IsOperatorChar)
    IN  [i \in 1..Len(ops) |-> InitOperators[ops[i]]]

IsNoNumber(t) == t.type # "Number"

\* a[i..] can be had from b[j..] by leaving elements out
RECURSIVE SubsequenceFrom(_, _, _, _)
SubsequenceFrom(a, i, b, j) ==
    IF i > Len(a) THEN TRUE
    ELSE IF j > Len(b) THEN FALSE
    ELSE IF a[i] = b[j] THEN SubsequenceFrom(a, i + 1, b, j + 1)
    ELSE SubsequenceFrom(a, i, b, j + 1)

\* C14: whitespace never produces a token: on every call the tokens of
\* Tokenize that are no Number stem each from one occurrence of an operator
\* character of the text, in order; "1 + 2 + 3" gives 1, Add, 2, Add, 3.
C14_WhitespaceGivesNoToken ==
    /\ (CallReturned /\ stages.Tokenize = "OK")
          => SubsequenceFrom(SelectSeq(tokens, IsNoNumber), 1,
                             OperatorTokensOf(user_input), 1)
    /\ (CallReturned /\ user_input = <<"1", " ", "+", " ", "2", " ", "+", " ", "3">>)
          => tokens = <<NumberToken(Dbl(1)), OpToken("Add"), NumberToken(Dbl(2)),
                        OpToken("Add"), NumberToken(Dbl(3))>>

\* a parenthesis-free chain of three or more operators, all of one
\* precedence and grouping to the left
SamePrecedenceLeftChain(toks) ==
    /\ WellFormedInfix(toks)
    /\ Len(toks) >= 7
    /\ \A i \in 1..Len(toks) : toks[i].type \notin {"LParanthesis", "RParenthesis"}
    /\ \A i \in 1..Len(toks) :
          (toks[i].type # "Number")
             => /\ ~GroupsToRight(toks[i].type)
                /\ StandardPrecedence(toks[i].type) = StandardPrecedence(toks[2].type)

\* C15 (as claimed): on a parenthesis-free chain of three or more operators
\* of the same precedence and left associativity the postfix output of
\* ConvertToRPN differs from the textbook one.
C15_UnderPopsOnSamePrecedenceChain ==
    (CallReturned /\ stages.Tokenize = "OK" /\ SamePrecedenceLeftChain(tokens))
        => rpn # StandardRPN(tokens)

\* C15 (amended): on such a chain the textbook loop pops one operator for
\* each incoming one, and the output of ConvertToRPN equals the textbook
\* one; on a well-formed expression the two differ exactly when the loop
\* pops two operators or more for one incoming operator.
C15_DiffersIffLoopPopsTwo ==
    (CallReturned /\ stages.Tokenize = "OK" /\ WellFormedInfix(tokens))
        => /\ (rpn # StandardRPN(tokens)) <=> (MostPops(tokens) >= 2)
           /\ SamePrecedenceLeftChain(tokens)
                 => (MostPops(tokens) = 1 /\ rpn = StandardRPN(tokens))

\* a chain of three operators of one precedence was converted
C15_Witness ==
    /\ pc = "print"
    /\ SamePrecedenceLeftChain(tokens)
    /\ rpn = StandardRPN(tokens)
    /\ \E i \in 1..Len(tokens) : tokens[i].type = "Sub"

\* TRUE iff the scan of text[i..], as the specification describes it, meets
\* in the operator-scanning state, before any alphabetic character, a
\* character that is no digit, no '.', no whitespace and no operator character
RECURSIVE MeetsUnrecognized(_, _, _)
MeetsUnrecognized(text, i, in_number) ==
    IF i > Len(text) THEN FALSE
    ELSE IF iswalpha(text[i]) THEN FALSE
    ELSE IF in_number
    THEN MeetsUnrecognized(text, i + 1, ~(iswspace(text[i]) \/ IsOperatorChar(text[i])))
    ELSE IF \/ iswdigit(text[i])
            \/ text[i] = "."
            \/ (text[i] = "-" /\ i + 1 <= Len(text) /\ iswdigit(text[i + 1]))
    THEN MeetsUnrecognized(text, i + 1, TRUE)
    ELSE IF IsOperatorChar(text[i]) \/ iswspace(text[i])
    THEN MeetsUnrecognized(text, i + 1, FALSE)
    ELSE TRUE

\* C16: Tokenize returns UnknownOperator exactly when the scan meets an
\* unrecognized character in the operator-scanning state before any
\* alphabetic character, on every call alike.
C16_UnknownOperatorOnEveryCall ==
    CallReturned
        => ((stages.Tokenize = "UnknownOperator")
               <=> MeetsUnrecognized(user_input, 1, FALSE))

IsNumber(t) == t.type = "Number"

\* C17: the value popped first is the right operand: the postfix sequence
\* a b op evaluates to a op b; each operator replaces two values by one;
\* Evaluate("10/2-3") is OK with 2.
C17_FirstPoppedIsRightOperand ==
    /\ (CallReturned /\ stages.Postfix = "OK" /\ Len(rpn) = 3
          /\ IsNumber(rpn[1]) /\ IsNumber(rpn[2]) /\ rpn[3].type \in BinaryOps)
          => /\ error = "OK"
             /\ result = StandardApply(rpn[3].type, rpn[1].val, rpn[2].val)
    /\ (CallReturned /\ stages.Postfix \in {"OK", "TooManyInputs"})
          => Len(eval_stack) =
                Len(SelectSeq(rpn, IsNumber)) - Len(SelectSeq(rpn, IsNoNumber))
    /\ (CallReturned /\ user_input = <<"1", "0", "/", "2", "-", "3">>)
          => (error = "OK" /\ result = Dbl(2))

\* a difference of two distinct numbers was evaluated
C17_Witness ==
    /\ pc = "print"
    /\ error = "OK"
    /\ Len(rpn) = 3
    /\ rpn[3].type = "Sub"
    /\ IsNumber(rpn[1]) /\ IsNumber(rpn[2])
    /\ rpn[1].val # rpn[2].val

\* the tokens the specification gives for text[i..], toks being those of
\* text[1..i-1]: one Number per number run, one token per operator
\* character outside a negative literal, none for whitespace; the scan
\* stops at an unrecognized character
RECURSIVE ExpectedTokens(_, _, _, _, _)
ExpectedTokens(text, i, start_index, in_number, toks) ==
    IF i > Len(text)
    THEN IF in_number
         THEN Append(toks, NumberToken(wcstod(SubSeq(text, start_index, Len(text)))))
         ELSE toks
    ELSE IF in_number
    THEN IF IsOperatorChar(text[i])
         THEN ExpectedTokens(text, i + 1, start_index, FALSE,
                  toks \o <<NumberToken(wcstod(SubSeq(text, start_index, i - 1))),
                            InitOperators[text[i]]>>)
         ELSE IF iswspace(text[i])
         THEN ExpectedTokens(text, i + 1, start_index, FALSE,
                  Append(toks, NumberToken(wcstod(SubSeq(text, start_index, i - 1)))))
         ELSE ExpectedTokens(text, i + 1, start_index, TRUE, toks)
    ELSE IF \/ iswdigit(text[i])
            \/ text[i] = "."
            \/ (text[i] = "-" /\ i + 1 <= Len(text) /\ iswdigit(text[i + 1]))
    THEN ExpectedTokens(text, i + 1, i, TRUE, toks)
    ELSE IF IsOperatorChar(text[i])
    THEN ExpectedTokens(text, i + 1, start_index, FALSE,
                        Append(toks, InitOperators[text[i]]))
    ELSE IF iswspace(text[i])
    THEN ExpectedTokens(text, i + 1, start_index, FALSE, toks)
    ELSE toks

\* C18: Tokenize emits, in input order, exactly one Number token per number
\* run and the token of each operator character: a number ended by an
\* operator is followed at once by that operator's token, a pending number
\* is flushed at the end, a trailing operator raises no error; the empty
\* text gives OK and no token.
C18_OneNumberPerRun ==
    /\ (CallReturned /\ stages.Tokenize = "OK")
          => tokens = ExpectedTokens(user_input, 1, 1, FALSE, <<>>)
    /\ CallReturned
          => /\ Tokenize(<<>>, Operators, <<>>).error = "OK"
             /\ Tokenize(<<>>, Operators, <<>>).tokens = <<>>

IsNoParen(t) == t.type \notin {"LParanthesis", "RParenthesis"}

\* the number of elements of toks equal to t
Occurrences(toks, t) == Cardinality({i \in 1..Len(toks) : toks[i] = t})

\* C19: when ConvertToRPN returns OK its output holds no parenthesis, the
\* Number tokens of the input in their order, and every other token of the
\* input that is no parenthesis exactly once.
C19_PostfixKeepsTokens ==
    (stages.ConvertToRPN = "OK")
        => /\ \A i \in 1..Len(rpn) : IsNoParen(rpn[i])
           /\ SelectSeq(rpn, IsNumber) = SelectSeq(tokens, IsNumber)
           /\ Len(rpn) = Len(SelectSeq(tokens, IsNoParen))
           /\ \A i \in 1..Len(rpn) :
                 Occurrences(rpn, rpn[i]) = Occurrences(tokens, rpn[i])

\* a sequence with two distinct numbers and two operators was converted
C19_Witness ==
    /\ pc = "converted"
    /\ stages.ConvertToRPN = "OK"
    /\ Len(rpn) = 4
    /\ \E i, j \in 1..Len(tokens) :
          /\ i < j /\ IsNumber(tokens[i]) /\ IsNumber(tokens[j])
          /\ tokens[i] # tokens[j]
    /\ \E i \in 1..Len(rpn) : ~IsNumber(rpn[i])

\* C20: a call of Evaluate that returns an error leaves the caller's result
\* as it was; a call that returns OK with a value on the stack writes that
\* value, the top of the stack, to result.
C20_ResultWrittenOnlyOnOK ==
    [][(pc = "getline" /\ pc' = "print")
          => /\ (error' # "OK") => result' = result
             /\ (error' = "OK" /\ eval_stack' # <<>>) => result' = Top(eval_stack')]_vars

\* a call returned an error with values on its stack, none of them in result
C20_Witness ==
    /\ pc = "print"
    /\ error = "TooManyInputs"
    /\ \A i \in 1..Len(eval_stack) : eval_stack[i] # result

=============================================================================
